---- MODULE Spec2Model ----
(***************************************************************************)
(* Model of github.com/digitalmint/go-sentry-middleware, package sentry:   *)
(* the LogSentrySendFailures round tripper, the fingerprint pre-send hook, *)
(* the URL path normalizer, the DSN redactor and the error-type unwrapper. *)
(*                                                                         *)
(* Byte strings are sequences of one-symbol strings.  A request or         *)
(* response body is a stream: its bytes, whether the read that follows the *)
(* last byte fails (instead of reporting io.EOF), and the read position.   *)
(***************************************************************************)
EXTENDS Integers, Sequences, FiniteSets, TLC

VARIABLES
  pc,        \* "idle" | "returned" | "read" | "called"
  reqOrig,   \* the stream the caller put in req.Body: [present, data, fail, pos, closed]
  reqBody,   \* what req.Body refers to: "nil" | "orig" | "buf"
  buf,       \* unread contents of the bytes.Buffer `buf` of RoundTrip
  innerRead, \* number of request bytes the inner transport read through the tee
  rtCalls,   \* number of calls of lsf.RT.RoundTrip
  inner,     \* what lsf.RT.RoundTrip returned: [hasResp, StatusCode, err]
  respOrig,  \* the body stream of the inner transport's response
  respBody,  \* what resp.Body refers to: "nil" | "orig" | "bufRsp"
  bufRsp,    \* unread contents of the bytes.Buffer `bufRsp` of RoundTrip
  ret,       \* what LogSentrySendFailures.RoundTrip returned: [hasResp, StatusCode, err]
  records,   \* the ErrSentryRoundTrip values handed to lsf.ErrorHandler, in order
  got,       \* what the caller read from req.Body and resp.Body after the call
  call       \* the last call of a pure function or hook: its inputs and its result

rtVars == <<reqOrig, reqBody, buf, innerRead, rtCalls, inner, respOrig, respBody,
            bufRsp, ret, records, got>>
vars == <<pc, reqOrig, reqBody, buf, innerRead, rtCalls, inner, respOrig, respBody,
          bufRsp, ret, records, got, call>>

---------------------------------------------------------------------------
(* Bounds of the model *)

MaxReqLen == 3
MaxRespLen == 3

---------------------------------------------------------------------------
(* Sequences *)

RECURSIVE SeqsUpTo(_, _)
SeqsUpTo(S, n) ==
  IF n = 0 THEN {<<>>}
  ELSE LET shorter == SeqsUpTo(S, n - 1)
       IN shorter \cup {Append(s, c) : s \in {t \in shorter : Len(t) = n - 1}, c \in S}

Take(s, n) == SubSeq(s, 1, IF n < Len(s) THEN n ELSE Len(s))
Drop(s, n) == SubSeq(s, n + 1, Len(s))

---------------------------------------------------------------------------
(* RedactDSN: regexp `[^ '"]+sentry\.io/[^ '"]+`, ReplaceAll with REDACTED. *)
(* The literal sentry.io/ is the one symbol SentryIo; it has no proper     *)
(* self-overlap, so an input splits into symbols in one way only.  Every   *)
(* byte of the literal is in the class [^ '"], and so is the symbol.       *)

SentryIo == "sentry.io/"
REDACTED == "REDACTED"
Delims == {" ", "'", "\""}

InClass(c) == c \notin Delims

\* the last index of the run of class symbols that starts at i (i - 1: no run)
RECURSIVE RunEnd(_, _)
RunEnd(s, i) ==
  IF i <= Len(s) /\ InClass(s[i]) THEN RunEnd(s, i + 1) ELSE i - 1

\* the end of the leftmost-first match that starts at i, 0 when none starts
\* there: [^ '"]+ takes s[i..p], the literal is s[p+1], and the greedy
\* second [^ '"]+ runs from p+2 to the end of the run.
MatchEnd(s, i) ==
  LET e == RunEnd(s, i)
  IN IF \E p \in i..(e - 2) : s[p + 1] = SentryIo THEN e ELSE 0

RECURSIVE ReplaceAllFrom(_, _)
ReplaceAllFrom(s, i) ==
  IF i > Len(s) THEN <<>>
  ELSE LET e == MatchEnd(s, i)
       IN IF e > 0 THEN <<REDACTED>> \o ReplaceAllFrom(s, e + 1)
          ELSE <<s[i]>> \o ReplaceAllFrom(s, i + 1)

\* the first match replaced and the rest of the buffer copied
RECURSIVE ReplaceFirstFrom(_, _)
ReplaceFirstFrom(s, i) ==
  IF i > Len(s) THEN <<>>
  ELSE LET e == MatchEnd(s, i)
       IN IF e > 0 THEN <<REDACTED>> \o Drop(s, e)
          ELSE <<s[i]>> \o ReplaceFirstFrom(s, i + 1)
RedactFirstOnly(body) == ReplaceFirstFrom(body, 1)

RedactDSN(body) == ReplaceAllFrom(body, 1)

MaxBufLen == 7

BufAlphabet == {"a", SentryIo, " ", "\""}

\* the buffer of TestRedactDSN: {"a":"b", "dsn":"https://abc@def.ingest.sentry.io/123"}
TestBuffer ==
  <<"{", "\"", "a", "\"", ":", "\"", "b", "\"", ",", " ", "\"", "d", "s", "n", "\"", ":",
    "\"", "h", "t", "t", "p", "s", ":", "/", "/", "a", "b", "c", "@", "d", "e", "f", ".",
    "i", "n", "g", "e", "s", "t", ".", SentryIo, "1", "2", "3", "\"", "}">>

Buffers == SeqsUpTo(BufAlphabet, MaxBufLen) \cup {TestBuffer}

Redact ==
  /\ pc = "idle"
  /\ \E b \in Buffers :
       call' = [op |-> "RedactDSN", body |-> b, out |-> RedactDSN(b)]
  /\ pc' = "called"
  /\ UNCHANGED rtVars

---------------------------------------------------------------------------
(* json.Unmarshal(body, &event), as far as RoundTrip reads the event: the  *)
(* document is "{" e* "}", each e one entry of the "exception" array.      *)
(* Anything else, the empty input and every proper prefix or suffix of a   *)
(* document included, is a syntax error and leaves the event zero.         *)

Unmarshal(b) ==
  IF /\ Len(b) >= 2
     /\ b[1] = "{"
     /\ b[Len(b)] = "}"
     /\ \A i \in 2..(Len(b) - 1) : b[i] = "e"
  THEN [err |-> "nil", Exception |-> SubSeq(b, 2, Len(b) - 1)]
  ELSE [err |-> "ErrJSON", Exception |-> <<>>]

---------------------------------------------------------------------------
(* Streams *)

NoStream == [present |-> FALSE, data |-> <<>>, fail |-> FALSE, pos |-> 0, closed |-> FALSE]
Stream(d, f) == [present |-> TRUE, data |-> d, fail |-> f, pos |-> 0, closed |-> FALSE]

\* io.ReadAll on a stream: the bytes from the read position on, and the
\* error of the read after the last byte (io.EOF is reported as no error)
ReadAll(st) ==
  [bytes |-> Drop(st.data, st.pos), err |-> IF st.fail THEN "ErrRead" ELSE "nil"]

\* io.ReadAll on a bytes.Buffer: its unread contents, never an error
ReadAllBuffer(b) == [bytes |-> b, err |-> "nil"]

---------------------------------------------------------------------------
(* LogSentrySendFailures.RoundTrip *)

ReqAlphabet == {"{", "e", "}"}
RespAlphabet == {"a", SentryIo}
Statuses == {200, 399, 400, 500}

ReqStreams ==
  {NoStream} \cup {Stream(d, f) : d \in SeqsUpTo(ReqAlphabet, MaxReqLen), f \in BOOLEAN}

\* an http.RoundTripper returns a response and a nil error, or no response
\* and an error
InnerResults ==
  {[hasResp |-> TRUE, StatusCode |-> s, err |-> "nil", Body |-> Stream(d, f)] :
      s \in Statuses, d \in SeqsUpTo(RespAlphabet, MaxRespLen), f \in BOOLEAN}
  \cup {[hasResp |-> FALSE, StatusCode |-> 0, err |-> "ErrInner", Body |-> NoStream]}

ErrSentryRoundTrip(msg, err, status, request, exception, response) ==
  [Msg |-> msg, Err |-> err, Status |-> status, Request |-> request,
   Exception |-> exception, Response |-> response]

MsgBody == "Sentry event send failure: error recovering request body"
MsgJson == "Sentry event send failure: error recovering request json"
MsgResp == "Sentry event send failure: error reading response body"
MsgEvent == "Sentry event"

\* var statusCode int; if resp != nil { statusCode = resp.StatusCode }
StatusCodeOf(r) == IF r.hasResp THEN r.StatusCode ELSE 0

\* a threshold off by one: a status of exactly 400 is not inspected
FailurePathAbove400(r) == StatusCodeOf(r) > 400 \/ ~r.hasResp

\* a threshold one too low: a status of 399 is inspected
FailurePathFrom399(r) == StatusCodeOf(r) >= 399 \/ ~r.hasResp

\* if statusCode >= 400 || resp == nil
FailurePath(r) == StatusCodeOf(r) >= 400 \/ ~r.hasResp

\* whether the inspection reaches the response-body tee
ReadsResponse(orig, r) ==
  FailurePath(r) /\ ReadAll(orig).err = "nil" /\ r.hasResp

\* the test inverted, as an earlier revision of RoundTrip had it (err == nil)
ResponseReadErrInverted(rspRead) == rspRead.err = "nil"

\* rspBody, err = io.ReadAll(teeRsp); if err != nil
ResponseReadErr(rspRead) == rspRead.err # "nil"

\* the handler calls of one inspection: `orig` is the request stream as the
\* inner transport left it, r what the inner transport returned
Inspect(orig, r) ==
  LET statusCode == StatusCodeOf(r)
      bodyRead == ReadAll(orig)           \* body, err := io.ReadAll(tee)
  IN IF bodyRead.err # "nil"
     THEN << ErrSentryRoundTrip(MsgBody, bodyRead.err, statusCode, <<>>, <<>>, <<>>) >>
     ELSE LET dec == Unmarshal(bodyRead.bytes)
              rspRead == IF r.hasResp THEN ReadAll(r.Body)
                         ELSE [bytes |-> <<>>, err |-> "nil"]
          IN (IF dec.err # "nil"
              THEN << ErrSentryRoundTrip(MsgJson, dec.err, statusCode,
                                         RedactDSN(bodyRead.bytes), <<>>, <<>>) >>
              ELSE <<>>)
             \o
             (IF r.hasResp /\ ResponseReadErr(rspRead)
              THEN << ErrSentryRoundTrip(MsgResp, rspRead.err, statusCode, <<>>, <<>>, <<>>) >>
              ELSE <<>>)
             \o
             << ErrSentryRoundTrip(MsgEvent, "nil", statusCode, <<>>,
                                   dec.Exception, RedactDSN(rspRead.bytes)) >>

\* the call on a request without a body: delegate
RoundTripNoBody(r) ==
  /\ reqOrig' = NoStream
  /\ reqBody' = "nil"
  /\ buf' = <<>>
  /\ innerRead' = 0
  /\ rtCalls' = rtCalls + 1
  /\ inner' = [hasResp |-> r.hasResp, StatusCode |-> r.StatusCode, err |-> r.err]
  /\ respOrig' = r.Body
  /\ respBody' = IF r.hasResp THEN "orig" ELSE "nil"
  /\ bufRsp' = <<>>
  /\ ret' = inner'
  /\ records' = <<>>

\* the call on a request with a body; the inner transport reads k bytes of
\* it through the tee before it returns r
RoundTripBody(st, k, r) ==
  LET afterInner == [st EXCEPT !.pos = k]
      inspected == FailurePath(r)
      teeRsp == ReadsResponse(afterInner, r)
  IN /\ reqOrig' = [st EXCEPT !.pos = IF inspected THEN Len(st.data) ELSE k,
                              !.closed = TRUE]         \* defer req.Body.Close()
     /\ reqBody' = "buf"                               \* req.Body = io.NopCloser(&buf)
     /\ buf' = IF inspected THEN st.data ELSE Take(st.data, k)
     /\ innerRead' = k
     /\ rtCalls' = rtCalls + 1
     /\ inner' = [hasResp |-> r.hasResp, StatusCode |-> r.StatusCode, err |-> r.err]
     /\ respOrig' = IF teeRsp
                    THEN [r.Body EXCEPT !.pos = Len(r.Body.data), !.closed = TRUE]
                    ELSE r.Body
     /\ respBody' = IF ~r.hasResp THEN "nil" ELSE IF teeRsp THEN "bufRsp" ELSE "orig"
     /\ bufRsp' = IF teeRsp THEN r.Body.data ELSE <<>>
     /\ ret' = inner'                                  \* return resp, err
     /\ records' = IF inspected THEN Inspect(afterInner, r) ELSE <<>>

RoundTrip ==
  /\ pc = "idle"
  /\ \E st \in ReqStreams, r \in InnerResults :
       IF ~st.present
       THEN RoundTripNoBody(r)
       ELSE \E k \in 0..Len(st.data) : RoundTripBody(st, k, r)
  /\ pc' = "returned"
  /\ UNCHANGED <<got, call>>

\* what reading a body field to the end delivers
ReadField(which, orig, buffer) ==
  IF which = "orig" THEN ReadAll(orig)
  ELSE IF which = "nil" THEN [bytes |-> <<>>, err |-> "nil"]
  ELSE ReadAllBuffer(buffer)

\* the caller reads req.Body and the returned response's body to the end
CallerReads ==
  /\ pc = "returned"
  /\ got' = [req |-> ReadField(reqBody, reqOrig, buf),
             resp |-> ReadField(respBody, respOrig, bufRsp)]
  /\ buf' = IF reqBody = "buf" THEN <<>> ELSE buf
  /\ bufRsp' = IF respBody = "bufRsp" THEN <<>> ELSE bufRsp
  /\ reqOrig' = reqOrig
  /\ respOrig' = IF respBody = "orig"
                 THEN [respOrig EXCEPT !.pos = Len(respOrig.data)] ELSE respOrig
  /\ pc' = "read"
  /\ UNCHANGED <<reqBody, innerRead, rtCalls, inner, respBody, ret, records, call>>

---------------------------------------------------------------------------
(* NormalizeUrlPathForSentry; the argument `path` is url.Path *)

MaxPathLen == 4

PathAlphabet == {"/", "a", "v", "1", "2"}
Digits == {"0", "1", "2", "3", "4", "5", "6", "7", "8", "9"}
DefaultPlaceholder == <<"-", "o", "m", "i", "t", "t", "e", "d", "-">>
Placeholders == {<<>>, <<"X">>, <<"0">>}
VersionExamplePath == <<"/", "v", "1", "/", "u", "s", "e", "r", "s", "/", "4", "2">>
Paths == SeqsUpTo(PathAlphabet, MaxPathLen) \cup {VersionExamplePath}

\* strings.Split(s, sep) for a one-byte separator: at least one part
RECURSIVE Split(_, _)
Split(s, sep) ==
  IF \A i \in 1..Len(s) : s[i] # sep THEN <<s>>
  ELSE LET i == CHOOSE j \in 1..Len(s) :
                  s[j] = sep /\ \A h \in 1..(j - 1) : s[h] # sep
       IN <<SubSeq(s, 1, i - 1)>> \o Split(Drop(s, i), sep)

\* strings.Join(parts, sep)
RECURSIVE Join(_, _)
Join(parts, sep) ==
  IF Len(parts) = 0 THEN <<>>
  ELSE IF Len(parts) = 1 THEN parts[1]
  ELSE parts[1] \o <<sep>> \o Join(Tail(parts), sep)

\* strings.TrimSuffix(s, suffix) for a one-byte suffix
TrimSuffix(s, c) ==
  IF Len(s) > 0 /\ s[Len(s)] = c THEN SubSeq(s, 1, Len(s) - 1) ELSE s

\* regexp.MustCompile("[0-9]+").MatchString(part)
NumericMatch(part) == \E i \in 1..Len(part) : part[i] \in Digits

\* the version segments not exempted
ReplacedWithoutExemption(part) == NumericMatch(part)

\* part != "v1" && part != "v2" && numericRegex.MatchString(part)
Replaced(part) == part # <<"v", "1">> /\ part # <<"v", "2">> /\ NumericMatch(part)

NormalizeUrlPathForSentry(path, placeholder) ==
  LET ph == IF placeholder = <<>> THEN DefaultPlaceholder ELSE placeholder
      pathParts == Split(path, "/")
      newParts == [i \in 1..Len(pathParts) |->
                     IF Replaced(pathParts[i]) THEN ph ELSE pathParts[i]]
  IN TrimSuffix(Join(newParts, "/"), "/")

Normalize ==
  /\ pc = "idle"
  /\ \E p \in Paths, ph \in Placeholders :
       call' = [op |-> "Normalize", path |-> p, placeholder |-> ph,
                out |-> NormalizeUrlPathForSentry(p, ph)]
  /\ pc' = "called"
  /\ UNCHANGED rtVars

---------------------------------------------------------------------------
(* SentryFingerprint and the BeforeSend closure of HubCustomFingerprint *)

MaxFpPathLen == 2
MaxBodyLen == 16
SnippetLen == 15

ExamplePath ==
  <<"/", "o", "r", "d", "e", "r", "s", "/", "9", "8", "7", "6", "5", "/",
    "i", "t", "e", "m", "s", "/", "1">>
ExampleBody ==
  <<"I", "n", "t", "e", "r", "n", "a", "l", " ", "f", "a", "i", "l", "u", "r", "e",
    ":", " ", "c", "o", "n", "n", "e", "c", "t", "i", "o", "n", " ", "r", "e", "s",
    "e", "t", " ", "a", "b", "c", "d", "e", "f", ".", ".", ".">>

FpPaths == SeqsUpTo(PathAlphabet, MaxFpPathLen) \cup {ExamplePath}
FpBodies == {Take(ExampleBody, n) : n \in 0..MaxBodyLen} \cup {ExampleBody}

\* SentryError500.Url, given by what url.Parse makes of it: a URL with the
\* path Path, or a parse error
Urls == {[valid |-> TRUE, Path |-> p] : p \in FpPaths}
        \cup {[valid |-> FALSE, Path |-> <<>>]}

\* u, err := url.Parse(ex.Url)
UrlParse(u) == [err |-> IF u.valid THEN "nil" ELSE "ErrParse", Path |-> u.Path]

\* hint.OriginalException: nil, an error of another type, or a SentryError500
NoUrl == [valid |-> FALSE, Path |-> <<>>]
OriginalExceptions ==
  {[kind |-> k, Url |-> NoUrl, Body |-> <<>>] : k \in {"nil", "other"}}
  \cup {[kind |-> "SentryError500", Url |-> u, Body |-> b] : u \in Urls, b \in FpBodies}

OldFingerprint == << <<"o", "l", "d">> >>
Fingerprints == {<<>>, OldFingerprint}

\* a slice bound off by one: ex.Body[0:16]
MessageOffByOne(body) ==
  IF Len(body) > SnippetLen THEN SubSeq(body, 1, SnippetLen + 1) ELSE body

\* message := ex.Body; if len(ex.Body) > 15 { message = ex.Body[0:15] }
Message(body) == IF Len(body) > SnippetLen THEN SubSeq(body, 1, SnippetLen) ELSE body

\* the parse error reported and the fingerprint set all the same, as an
\* earlier revision of SentryFingerprint did
SentryFingerprintSetOnParseError(fingerprint, oe) ==
  IF oe.kind = "SentryError500"
  THEN LET u == UrlParse(oe.Url)
       IN [Fingerprint |-> <<NormalizeUrlPathForSentry(u.Path, <<>>), Message(oe.Body)>>,
           err |-> u.err]
  ELSE [Fingerprint |-> fingerprint, err |-> "nil"]

\* SentryFingerprint(event, hint): the event's Fingerprint afterwards and the
\* error returned
SentryFingerprint(fingerprint, oe) ==
  IF oe.kind = "SentryError500"
  THEN LET u == UrlParse(oe.Url)
       IN IF u.err # "nil"
          THEN [Fingerprint |-> fingerprint, err |-> u.err]
          ELSE [Fingerprint |-> <<NormalizeUrlPathForSentry(u.Path, <<>>), Message(oe.Body)>>,
                err |-> "nil"]
  ELSE [Fingerprint |-> fingerprint, err |-> "nil"]

\* options.BeforeSend: the Fingerprint of the event it returns, and the
\* calls of fingerprintErrHandler
BeforeSend(fingerprint, oe) ==
  LET r == SentryFingerprint(fingerprint, oe)
  IN [Fingerprint |-> r.Fingerprint,
      handled |-> IF r.err # "nil" THEN <<r.err>> ELSE <<>>,
      returned |-> TRUE,
      panicked |-> FALSE]

Fingerprint ==
  /\ pc = "idle"
  /\ \E fp \in Fingerprints, oe \in OriginalExceptions :
       call' = [op |-> "BeforeSend", before |-> fp, hint |-> oe,
                out |-> BeforeSend(fp, oe)]
  /\ pc' = "called"
  /\ UNCHANGED rtVars

---------------------------------------------------------------------------
(* unwrapToSpecificError and sentryBeforeSendUnwrapAndFilterErrorType.     *)
(* A type name (reflect.Type.String()) is a sequence of symbols: "*", a    *)
(* package qualifier, a type identifier.  An error is the sequence of the  *)
(* type names of its chain, outermost first; errors.Unwrap is Tail, and    *)
(* the nil error is the empty chain.                                       *)

MaxChain == 3
MaxFilters == 2
MaxExceptions == 2

TErrorString == <<"*", "errors.", "errorString">>
TWrapError == <<"*", "fmt.", "wrapError">>
TWithStack == <<"*", "errors.", "withStack">>
TTestErr == <<"sentry.", "testErr">>
TypeNames == {TErrorString, TWrapError, TWithStack, TTestErr}

NilError == <<>>
RECURSIVE SeqsOfLen(_, _)
SeqsOfLen(S, n) ==
  IF n = 0 THEN {<<>>} ELSE {<<x>> \o s : x \in S, s \in SeqsOfLen(S, n - 1)}
\* the types with an Unwrap method, which always hold a non-nil error, and
\* the types without one, which end a chain
Wrappers == {TWrapError, TWithStack}
Leaves == {TErrorString, TTestErr}
Chains ==
  UNION {{w \o <<l>> : w \in SeqsOfLen(Wrappers, n), l \in Leaves} : n \in 0..(MaxChain - 1)}

defaultFilterErrorTypes == << <<"errors.">>, <<"fmt.", "wrapError">> >>
FilterPrefixes == {<<"errors.">>, <<"fmt.", "wrapError">>, <<"sentry.">>, <<"sentry.", "testErr">>}
FilterLists == UNION {SeqsOfLen(FilterPrefixes, n) : n \in 0..MaxFilters}

\* strings.CutPrefix(s, prefix)
HasPrefix(s, prefix) == Len(prefix) <= Len(s) /\ SubSeq(s, 1, Len(prefix)) = prefix
CutPrefix(s, prefix) ==
  IF HasPrefix(s, prefix) THEN [found |-> TRUE, after |-> Drop(s, Len(prefix))]
  ELSE [found |-> FALSE, after |-> s]

\* the inner loop over filterErrorTypes, from prefix number i on
RECURSIVE CutFilters(_, _, _)
CutFilters(typStr, filterErrorTypes, i) ==
  IF i > Len(filterErrorTypes) THEN [found |-> FALSE, typStr |-> typStr]
  ELSE LET plain == CutPrefix(typStr, filterErrorTypes[i])
           starred == CutPrefix(typStr, <<"*">> \o filterErrorTypes[i])
       IN IF plain.found THEN [found |-> TRUE, typStr |-> plain.after]
          ELSE IF starred.found THEN [found |-> TRUE, typStr |-> starred.after]
          ELSE CutFilters(typStr, filterErrorTypes, i + 1)

\* the outer loop, one iteration per call; the result is the value of the
\* three locals when the loop is left
RECURSIVE UnwrapLoop(_, _, _, _, _)
UnwrapLoop(err, filterErrorTypes, typStr, firstTypStr, underlying) ==
  IF err = NilError                              \* typ == nil: break
  THEN [typStr |-> typStr, firstTypStr |-> firstTypStr, underlying |-> underlying]
  ELSE LET cut == CutFilters(Head(err), filterErrorTypes, 1)
           first == IF firstTypStr = <<>> THEN cut.typStr ELSE firstTypStr
           next == Tail(err)                     \* errors.Unwrap(err)
       IN IF cut.found
          THEN IF next # NilError
               THEN UnwrapLoop(next, filterErrorTypes, cut.typStr, first, next)
               ELSE [typStr |-> cut.typStr, firstTypStr |-> first, underlying |-> NilError]
          ELSE [typStr |-> cut.typStr, firstTypStr |-> first, underlying |-> underlying]

\* the result: nil (isNil), or a pointer to the string str
unwrapToSpecificError(err, filterErrorTypes) ==
  LET l == UnwrapLoop(err, filterErrorTypes, <<>>, <<>>, NilError)
  IN IF l.typStr = <<>> THEN [isNil |-> TRUE, str |-> <<>>]
     ELSE IF l.underlying = NilError THEN [isNil |-> FALSE, str |-> l.firstTypStr]
     ELSE [isNil |-> FALSE, str |-> l.typStr]

Unwrap ==
  /\ pc = "idle"
  /\ \E err \in Chains \cup {NilError}, fl \in FilterLists :
       call' = [op |-> "unwrapToSpecificError", err |-> err, filterErrorTypes |-> fl,
                out |-> unwrapToSpecificError(err, fl)]
  /\ pc' = "called"
  /\ UNCHANGED rtVars

\* event.Exception, by the Type of each entry
ExceptionTypes == {TErrorString, <<"errorString">>}
ExceptionLists == UNION {SeqsOfLen(ExceptionTypes, n) : n \in 0..MaxExceptions}

\* SentryBeforeSendUnwrapAndFilterErrorType(conf): the configured list, or
\* the default one when it is empty
ConfiguredFilters(conf) == IF Len(conf) = 0 THEN defaultFilterErrorTypes ELSE conf

\* conf.sentryBeforeSendUnwrapAndFilterErrorType(event, hint): the event's
\* Exception types afterwards, or the panic of an index out of range
sentryBeforeSendUnwrapAndFilterErrorType(conf, exception, oe) ==
  IF oe = NilError
  THEN [panicked |-> FALSE, Exception |-> exception]
  ELSE LET errStr == unwrapToSpecificError(oe, ConfiguredFilters(conf))
           last == Len(exception)                \* exLastIndex + 1
       IN IF errStr.isNil
          THEN [panicked |-> FALSE, Exception |-> exception]
          ELSE IF last = 0                       \* event.Exception[-1]
          THEN [panicked |-> TRUE, Exception |-> exception]
          ELSE IF errStr.str # exception[last]
          THEN [panicked |-> FALSE, Exception |-> [exception EXCEPT ![last] = errStr.str]]
          ELSE [panicked |-> FALSE, Exception |-> exception]

FilterErrorType ==
  /\ pc = "idle"
  /\ \E conf \in FilterLists, ex \in ExceptionLists, oe \in Chains \cup {NilError} :
       call' = [op |-> "sentryBeforeSendUnwrapAndFilterErrorType", conf |-> conf,
                exception |-> ex, hint |-> oe,
                out |-> sentryBeforeSendUnwrapAndFilterErrorType(conf, ex, oe)]
  /\ pc' = "called"
  /\ UNCHANGED rtVars

---------------------------------------------------------------------------

Init ==
  /\ pc = "idle"
  /\ reqOrig = NoStream
  /\ reqBody = "nil"
  /\ buf = <<>>
  /\ innerRead = 0
  /\ rtCalls = 0
  /\ inner = [hasResp |-> FALSE, StatusCode |-> 0, err |-> "nil"]
  /\ respOrig = NoStream
  /\ respBody = "nil"
  /\ bufRsp = <<>>
  /\ ret = [hasResp |-> FALSE, StatusCode |-> 0, err |-> "nil"]
  /\ records = <<>>
  /\ got = [req |-> [bytes |-> <<>>, err |-> "nil"], resp |-> [bytes |-> <<>>, err |-> "nil"]]
  /\ call = [op |-> "none"]

NextRoundTrip == RoundTrip \/ CallerReads
SpecRoundTrip == Init /\ [][NextRoundTrip]_vars

NextFingerprint == Normalize \/ Fingerprint
SpecFingerprint == Init /\ [][NextFingerprint]_vars

NextErrorType == Unwrap \/ FilterErrorType
SpecErrorType == Init /\ [][NextErrorType]_vars

NextRedact == Redact
SpecRedact == Init /\ [][NextRedact]_vars

Next ==
  RoundTrip \/ CallerReads \/ Normalize \/ Fingerprint \/ Unwrap \/ FilterErrorType \/ Redact
Spec == Init /\ [][Next]_vars

---------------------------------------------------------------------------
(* Properties of LogSentrySendFailures.RoundTrip *)

Returned == pc \in {"returned", "read"}

\* the call took the inspected path: a request with a body, and no response
\* or a status >= 400
Failed == Returned /\ reqOrig.present /\ (~inner.hasResp \/ inner.StatusCode >= 400)

\* what reading the inner transport's own response body to the end delivers
InnerDelivers ==
  [bytes |-> respOrig.data, err |-> IF respOrig.fail THEN "ErrRead" ELSE "nil"]

CountMsg(msg) == Cardinality({i \in 1..Len(records) : records[i].Msg = msg})

\* C1: RoundTrip returns the inner transport's (response, error) pair, and
\* reading the returned response's body to the end delivers the bytes and the
\* terminal read error the inner transport's response body delivers.
C1_RoundTripTransparent ==
  pc = "read" => /\ ret = inner
                 /\ (inner.hasResp => got.resp = InnerDelivers)

\* C2: after a RoundTrip on a request with a body, reading req.Body to the
\* end yields the original request body bytes, whatever prefix the inner
\* transport consumed and on the success and the failure path alike.
C2_RequestBodyRestored ==
  (pc = "read" /\ reqOrig.present) => got.req.bytes = reqOrig.data

\* C3: on the failure path the inspection decodes the complete request body:
\* when that body is a valid event document, no "error recovering request
\* json" record is emitted and the final record carries the event's
\* exception list, however much of the body the inner transport consumed.
C3_DecodesWholeRequest ==
  (Failed /\ ~reqOrig.fail /\ Unmarshal(reqOrig.data).err = "nil")
    => /\ CountMsg(MsgJson) = 0
       /\ Len(records) >= 1
       /\ records[Len(records)].Msg = MsgEvent
       /\ records[Len(records)].Exception = Unmarshal(reqOrig.data).Exception

\* C4 (as stated): on the failure path the handler receives exactly one
\* "Sentry event" record, the last of the call, whatever failed earlier in
\* the inspection, a request-body read failure included.
C4_EventRecordAlways ==
  Failed => /\ CountMsg(MsgEvent) = 1
            /\ records[Len(records)].Msg = MsgEvent

\* C4 (amended): on the failure path, when the request-body read succeeds the
\* handler receives exactly one "Sentry event" record and it is the last
\* record of the call, whatever the JSON decode or the response-body read
\* did; when the request-body read fails the handler receives the "error
\* recovering request body" record alone and no "Sentry event" record.
C4_EventRecordUnlessRequestReadFails ==
  Failed =>
    IF reqOrig.fail
    THEN /\ CountMsg(MsgEvent) = 0
         /\ Len(records) = 1
         /\ records[1].Msg = MsgBody
    ELSE /\ CountMsg(MsgEvent) = 1
         /\ records[Len(records)].Msg = MsgEvent

\* C4 witness: a failed call whose JSON decode and response-body read both
\* failed, with the "Sentry event" record last of three.
C4_Witness ==
  /\ Failed /\ ~reqOrig.fail /\ inner.hasResp /\ respOrig.fail
  /\ Len(records) = 3
  /\ records[1].Msg = MsgJson
  /\ records[2].Msg = MsgResp
  /\ records[3].Msg = MsgEvent

\* the inspection's read of the response-body copy failed
ResponseReadFailed == Failed /\ ~reqOrig.fail /\ inner.hasResp /\ respOrig.fail

\* C5 (as stated): when a read of a tee'd copy fails during the inspection
\* (request body or response body), the handler receives exactly one record,
\* the one describing that failure, and nothing after it; the inner
\* transport's pair is returned.
C5_InspectionAbandoned ==
  /\ (Failed /\ reqOrig.fail)
       => (Len(records) = 1 /\ records[1].Msg = MsgBody /\ ret = inner)
  /\ ResponseReadFailed
       => (/\ CountMsg(MsgResp) = 1
           /\ records[Len(records)].Msg = MsgResp
           /\ ret = inner)

\* C5 (amended): when the request-body read fails, the handler receives the
\* record of that failure and no other record; when the response-body read
\* fails, the handler receives exactly one record of that failure and the
\* inspection goes on: the "Sentry event" record follows it as the last
\* record.  In both cases the inner transport's (response, error) pair is
\* returned.
C5_ReadFailureReported ==
  /\ (Failed /\ reqOrig.fail)
       => (/\ Len(records) = 1
           /\ records[1].Msg = MsgBody
           /\ records[1].Err = "ErrRead"
           /\ ret = inner)
  /\ ResponseReadFailed
       => (/\ CountMsg(MsgResp) = 1
           /\ Len(records) >= 2
           /\ records[Len(records) - 1].Msg = MsgResp
           /\ records[Len(records) - 1].Err = "ErrRead"
           /\ records[Len(records)].Msg = MsgEvent
           /\ ret = inner)

\* C5 witness: the response-body read failed after a clean decode, and the
\* failure record is followed by the "Sentry event" record.
C5_Witness ==
  /\ ResponseReadFailed
  /\ Len(records) = 2
  /\ records[1].Msg = MsgResp
  /\ records[2].Msg = MsgEvent
  /\ records[2].Response # <<>>

---------------------------------------------------------------------------
(* Properties of the hooks and the pure functions *)

FilterCalled == pc = "called" /\ call.op = "sentryBeforeSendUnwrapAndFilterErrorType"
NormalizeCalled == pc = "called" /\ call.op = "Normalize"
BeforeSendCalled == pc = "called" /\ call.op = "BeforeSend"
UnwrapCalled == pc = "called" /\ call.op = "unwrapToSpecificError"

\* C6: the error-type pre-send hook returns the event unchanged, without
\* failing, whenever the hint carries no original error or the event's
\* exception list is empty (a non-nil error with zero entries included).
C6_NoOpWithoutErrorOrExceptions ==
  (FilterCalled /\ (call.hint = NilError \/ call.exception = <<>>))
    => (~call.out.panicked /\ call.out.Exception = call.exception)

\* C7: NormalizeUrlPathForSentry is idempotent: normalizing the result of
\* normalizing a path, with the same placeholder, returns that result.
C7_NormalizeIdempotent ==
  NormalizeCalled
    => NormalizeUrlPathForSentry(call.out, call.placeholder) = call.out

ExampleFailure ==
  /\ BeforeSendCalled
  /\ call.hint.kind = "SentryError500"
  /\ call.hint.Url.valid
  /\ call.hint.Url.Path = ExamplePath
  /\ call.hint.Body = ExampleBody

ExampleNormalizedPath ==
  <<"/", "o", "r", "d", "e", "r", "s", "/", "-", "o", "m", "i", "t", "t", "e", "d", "-",
    "/", "i", "t", "e", "m", "s", "/", "-", "o", "m", "i", "t", "t", "e", "d", "-">>

\* C8 (as stated): the failure with path /orders/98765/items/1 and body
\* "Internal failure: connection reset abcdef..." gets the fingerprint
\* ["/orders/-omitted-/items/-omitted-", "Internal failure:"].
C8_ExampleFingerprintAsStated ==
  ExampleFailure
    => call.out.Fingerprint =
         <<ExampleNormalizedPath,
           <<"I", "n", "t", "e", "r", "n", "a", "l", " ", "f", "a", "i", "l", "u", "r", "e", ":">> >>

\* C8 (amended): that failure gets the fingerprint
\* ["/orders/-omitted-/items/-omitted-", "Internal failur"]: the second
\* element is the 15-byte prefix of the body, which ends before "e:".
C8_ExampleFingerprint ==
  ExampleFailure
    => /\ call.out.Fingerprint =
            <<ExampleNormalizedPath,
              <<"I", "n", "t", "e", "r", "n", "a", "l", " ", "f", "a", "i", "l", "u", "r">> >>
       /\ Len(call.out.Fingerprint[2]) = 15

\* C8 witness: the hook has run on the example failure and set a two-element
\* fingerprint.
C8_Witness ==
  ExampleFailure /\ Len(call.out.Fingerprint) = 2 /\ call.before = OldFingerprint

\* C9: the fingerprint pre-send hook always returns the event and never
\* raises; for a SentryError500 whose Url parses it sets the fingerprint to
\* [normalized path, first min(15, len(Body)) bytes of Body]; for one whose
\* Url does not parse it calls the error callback exactly once and keeps the
\* fingerprint; for any other original error, nil included, it keeps the
\* fingerprint and does not call the callback.
C9_FingerprintHook ==
  BeforeSendCalled =>
    /\ call.out.returned
    /\ ~call.out.panicked
    /\ (call.hint.kind = "SentryError500" /\ call.hint.Url.valid)
         => call.out.Fingerprint =
              << NormalizeUrlPathForSentry(call.hint.Url.Path, <<>>),
                 SubSeq(call.hint.Body, 1,
                        IF Len(call.hint.Body) < 15 THEN Len(call.hint.Body) ELSE 15) >>
    /\ (call.hint.kind = "SentryError500" /\ ~call.hint.Url.valid)
         => (Len(call.out.handled) = 1 /\ call.out.Fingerprint = call.before)
    /\ (call.hint.kind # "SentryError500")
         => (call.out.handled = <<>> /\ call.out.Fingerprint = call.before)

\* C9 witness: a SentryError500 whose Url does not parse, reported once
\* through the callback, with the earlier fingerprint kept.
C9_Witness ==
  /\ BeforeSendCalled
  /\ call.hint.kind = "SentryError500"
  /\ ~call.hint.Url.valid
  /\ call.before = OldFingerprint
  /\ call.out.Fingerprint = OldFingerprint
  /\ call.out.handled = <<"ErrParse">>

\* a type name matches a generic prefix, with or without a leading "*"
MatchesPrefix(t, prefix) == HasPrefix(t, prefix) \/ HasPrefix(t, <<"*">> \o prefix)
IsGeneric(t, filters) == \E i \in 1..Len(filters) : MatchesPrefix(t, filters[i])

\* a generic type name without its matched prefix: the first prefix of the
\* list that matches, tried without and then with the "*"
StrippedName(t, filters) ==
  LET i == CHOOSE j \in 1..Len(filters) :
             MatchesPrefix(t, filters[j]) /\ \A h \in 1..(j - 1) : ~MatchesPrefix(t, filters[h])
  IN IF HasPrefix(t, filters[i]) THEN Drop(t, Len(filters[i]))
     ELSE Drop(t, Len(filters[i]) + 1)

\* the classification of a non-empty chain: the first link that is not
\* generic, or the outermost link's stripped name when every link is generic
ExpectedClassification(chain, filters) ==
  IF \E i \in 1..Len(chain) : ~IsGeneric(chain[i], filters)
  THEN chain[CHOOSE i \in 1..Len(chain) :
               ~IsGeneric(chain[i], filters)
               /\ \A h \in 1..(i - 1) : IsGeneric(chain[h], filters)]
  ELSE StrippedName(chain[1], filters)

\* C10: for every non-empty error chain and every generic-prefix list,
\* unwrapToSpecificError returns the type name of the first link that matches
\* no generic prefix, or, when every link matches one, the outermost link's
\* type name with the matched prefix stripped.
C10_Classification ==
  (UnwrapCalled /\ call.err # NilError)
    => /\ ~call.out.isNil
       /\ call.out.str = ExpectedClassification(call.err, call.filterErrorTypes)

---------------------------------------------------------------------------
(* The normalizer, segment by segment *)

\* a segment is replaced: it holds a decimal digit and is neither v1 nor v2
HoldsDigit(seg) ==
  \E i \in 1..Len(seg) : seg[i] \in {"0", "1", "2", "3", "4", "5", "6", "7", "8", "9"}
MappedSegment(seg, ph) ==
  IF HoldsDigit(seg) /\ seg # <<"v", "1">> /\ seg # <<"v", "2">> THEN ph ELSE seg

\* the path read byte by byte: seg is the segment read so far; each '/' ends
\* a segment, which is written mapped and followed by the '/'
RECURSIVE MapSegments(_, _, _)
MapSegments(rest, seg, ph) ==
  IF rest = <<>> THEN MappedSegment(seg, ph)
  ELSE IF Head(rest) = "/"
  THEN MappedSegment(seg, ph) \o <<"/">> \o MapSegments(Tail(rest), <<>>, ph)
  ELSE MapSegments(Tail(rest), Append(seg, Head(rest)), ph)

WithoutOneTrailingSlash(s) ==
  IF s # <<>> /\ s[Len(s)] = "/" THEN SubSeq(s, 1, Len(s) - 1) ELSE s

\* C11: NormalizeUrlPathForSentry maps a path segment by segment: a segment
\* is replaced by the placeholder ("-omitted-" for the empty placeholder) iff
\* it holds a decimal digit and is not exactly v1 or v2; every other segment
\* stays unchanged and in place; the segments are rejoined with '/' and one
\* trailing '/' is removed.  /v1/users/42 becomes /v1/users/-omitted-.
C11_SegmentBySegment ==
  NormalizeCalled =>
    LET ph == IF call.placeholder = <<>>
              THEN <<"-", "o", "m", "i", "t", "t", "e", "d", "-">>
              ELSE call.placeholder
    IN /\ call.out = WithoutOneTrailingSlash(MapSegments(call.path, <<>>, ph))
       /\ (call.path = VersionExamplePath /\ call.placeholder = <<>>)
            => call.out = <<"/", "v", "1", "/", "u", "s", "e", "r", "s", "/",
                            "-", "o", "m", "i", "t", "t", "e", "d", "-">>

\* C11 witness: /v1/users/42 normalized with the default placeholder, the v1
\* segment kept and the 42 segment replaced.
C11_Witness ==
  /\ NormalizeCalled
  /\ call.path = VersionExamplePath
  /\ call.placeholder = <<>>
  /\ SubSeq(call.out, 1, 4) = <<"/", "v", "1", "/">>
  /\ Len(call.out) = 19

---------------------------------------------------------------------------
(* The redactor *)

RedactCalled == pc = "called" /\ call.op = "RedactDSN"

\* a run of non-space, non-quote bytes holds an occurrence of the pattern iff
\* the literal sentry.io/ stands in it with a byte before and a byte after;
\* the leftmost match then starts where the run starts and the greedy match
\* ends where the run ends, so the occurrence is the whole run
RunRedacted(run) ==
  IF \E p \in 2..(Len(run) - 1) : run[p] = "sentry.io/" THEN <<"REDACTED">> ELSE run

\* the buffer read byte by byte: run is the run read so far; a space or a
\* quote ends it and is copied
RECURSIVE RedactRuns(_, _)
RedactRuns(rest, run) ==
  IF rest = <<>> THEN RunRedacted(run)
  ELSE IF Head(rest) \in {" ", "'", "\""}
  THEN RunRedacted(run) \o <<Head(rest)>> \o RedactRuns(Tail(rest), <<>>)
  ELSE RedactRuns(Tail(rest), Append(run, Head(rest)))

\* the number of runs of the buffer that hold an occurrence
RECURSIVE Occurrences(_, _)
Occurrences(rest, run) ==
  LET here == IF RunRedacted(run) = <<"REDACTED">> THEN 1 ELSE 0
  IN IF rest = <<>> THEN here
     ELSE IF Head(rest) \in {" ", "'", "\""} THEN here + Occurrences(Tail(rest), <<>>)
     ELSE Occurrences(Tail(rest), Append(run, Head(rest)))

CountSymbol(s, c) == Cardinality({i \in 1..Len(s) : s[i] = c})

\* C12: RedactDSN replaces every non-overlapping occurrence of the pattern
\* by exactly REDACTED, all of them and not only the first, and leaves every
\* byte outside the matched spans unchanged and in order; the buffer
\* {"a":"b", "dsn":"https://abc@def.ingest.sentry.io/123"} becomes
\* {"a":"b", "dsn":"REDACTED"}.
C12_RedactsEveryOccurrence ==
  RedactCalled =>
    /\ call.out = RedactRuns(call.body, <<>>)
    /\ CountSymbol(call.out, "REDACTED") = Occurrences(call.body, <<>>)
    /\ call.body = TestBuffer
         => call.out = <<"{", "\"", "a", "\"", ":", "\"", "b", "\"", ",", " ",
                         "\"", "d", "s", "n", "\"", ":", "\"", "REDACTED", "\"", "}">>

\* C12 witness: a buffer with two occurrences, both replaced, and the space
\* between them kept.
C12_Witness ==
  /\ RedactCalled
  /\ Occurrences(call.body, <<>>) = 2
  /\ call.out = <<"REDACTED", " ", "REDACTED">>

---------------------------------------------------------------------------
(* The paths of RoundTrip that do not inspect *)

\* the request has no body, or the inner transport returned a response with a
\* status below 400
NotInspected ==
  pc = "returned" /\ (~reqOrig.present \/ (inner.hasResp /\ inner.StatusCode < 400))

\* C13: when the request has no body (whatever the outcome), or the inner
\* transport returns a response with status < 400, the handler is never
\* invoked, nothing is read from the response body (it is neither advanced,
\* closed nor replaced), and the inner transport is invoked exactly once.
C13_NoInspection ==
  NotInspected =>
    /\ records = <<>>
    /\ respOrig.pos = 0
    /\ ~respOrig.closed
    /\ respBody # "bufRsp"
    /\ bufRsp = <<>>
    /\ rtCalls = 1

\* C13 witness: a request with a body, partly read by the inner transport,
\* answered with status 399 and a non-empty response body.
C13_Witness ==
  /\ NotInspected
  /\ reqOrig.present
  /\ innerRead > 0
  /\ inner.hasResp
  /\ inner.StatusCode = 399
  /\ respOrig.data # <<>>
  /\ respOrig.pos = 0
  /\ records = <<>>
  /\ rtCalls = 1

---------------------------------------------------------------------------
(* The classification of a non-nil error *)

\* C14: unwrapToSpecificError returns none only when the error it is given
\* is nil: for every non-nil error chain and every generic-prefix list (a
\* prefix equal to the whole type name of a link included) the result is a
\* non-empty classification string.
C14_NoneOnlyForNil ==
  UnwrapCalled =>
    /\ call.out.isNil <=> call.err = NilError
    /\ ~call.out.isNil => call.out.str # <<>>

====
